---- MODULE Spec2Model ----
(***************************************************************************)
(* Realtime presence/chat gateway of the student portal                    *)
(* (backend/app/realtime/socket_server.py).                                *)
(*                                                                         *)
(* The state is the two module-level registries of the gateway and the     *)
(* room membership kept by the Socket.IO server.  Every event handler is   *)
(* one action.  Three observation variables record the last handler run:   *)
(* `last' (the event and its input), `pre' (the registries before it) and  *)
(* `log' (the collaborator calls, room joins and emits it made, in order), *)
(* `result' (how the handler ended).                                       *)
(*                                                                         *)
(* Text is a sequence of one-character strings, so that lower-casing and   *)
(* trimming are computed and not assumed.                                  *)
(*                                                                         *)
(* The same handlers are also followed as coroutines, one step from await  *)
(* to await (`tasks', `wire'), and the password-reset token store          *)
(* (backend/app/utils/password_reset_store.py) as threads around its lock. *)
(***************************************************************************)
EXTENDS Naturals, Sequences, FiniteSets

VARIABLES
  ACTIVE_CLIENTS,       \* _ACTIVE_CLIENTS: sid -> session (enrollment, context)
  STUDENT_CONNECTIONS,  \* _STUDENT_CONNECTIONS: enrollment -> set of sids
  rooms,                \* sid -> rooms entered with sio.enter_room
  last,                 \* the handler last run: event, sid and arguments
  pre,                  \* the registries and rooms as that handler found them
  log,                  \* its collaborator calls, room joins and emits, in order
  result,               \* "return", or the exception it raised
  tasks,                \* handlers suspended at an await: event, sid, await, locals
  wire,                 \* presence:update events sent so far, latest per enrollment
  reset_tokens,         \* _reset_tokens: token -> (email, expires_at)
  lock,                 \* _lock: the caller holding it, or NoCaller
  clock,                \* datetime.utcnow()
  callers,              \* threads inside the reset-token store: call, place, locals
  granted               \* token -> consume calls that returned True since it was stored

vars == <<ACTIVE_CLIENTS, STUDENT_CONNECTIONS, rooms, last, pre, log, result, tasks, wire,
          reset_tokens, lock, clock, callers, granted>>

resetVars == <<reset_tokens, lock, clock, callers, granted>>

\* Number of connection ids the transport hands out concurrently.
NumSids == 2

Sids == 1..NumSids

(***************************************************************************)
(* Python values                                                           *)
(***************************************************************************)

\* An optional text value: a key that is absent, a null, or a string.
Missing == [tag |-> "missing", s |-> <<>>]
NoneV == [tag |-> "none", s |-> <<>>]
Str(s) == [tag |-> "str", s |-> s]

\* dict.get(key): an absent key reads as None.
Get(v) == IF v.tag = "missing" THEN NoneV ELSE v

\* dict.get(key, ""): an absent key reads as the empty string, a null stays.
GetOrEmpty(v) == IF v.tag = "missing" THEN Str(<<>>) ELSE v

\* Variant: an `is not None' test, which lets the empty string through.
TruthyNotNone(v) == v.tag = "str"

\* Python truthiness of an optional text: None and "" are falsy.
Truthy(v) == v.tag = "str" /\ v.s # <<>>

IsSpace(c) == c = " "

LowerChar(c) ==
  CASE c = "A" -> "a"
    [] c = "B" -> "b"
    [] OTHER -> c

\* Variant: the .lower() call left out.
LowerNoop(s) == s

\* str.lower()
Lower(s) == [i \in 1..Len(s) |-> LowerChar(s[i])]

RECURSIVE LStrip(_)
LStrip(s) == IF s # <<>> /\ IsSpace(Head(s)) THEN LStrip(Tail(s)) ELSE s

RECURSIVE RStrip(_)
RStrip(s) ==
  IF s # <<>> /\ IsSpace(s[Len(s)]) THEN RStrip(SubSeq(s, 1, Len(s) - 1)) ELSE s

\* str.strip()
Strip(s) == RStrip(LStrip(s))

\* str(int) for the tenant ids of the model.
IntStr(n) ==
  CASE n = 0 -> <<"0">>
    [] n = 1 -> <<"1">>
    [] n = 2 -> <<"2">>
    [] OTHER -> <<"9">>

(***************************************************************************)
(* Input domains                                                           *)
(***************************************************************************)

\* Enrollment numbers of connecting students; they differ only in letter case.
Enrollments == {<<"a">>, <<"A">>}

Ctx(admin_id, std, division) ==
  [admin_id |-> admin_id, std |-> std, division |-> division]

\* Roster contexts the student service can resolve: two classes of tenant 1
\* (one without a division) and one class of tenant 2.
Contexts ==
  { Ctx(1, <<"5">>, Str(<<"A">>)),
    Ctx(1, <<"5">>, NoneV),
    Ctx(2, <<"5">>, Str(<<"A">>)) }

NoContext == Ctx(0, <<>>, NoneV)

\* What _ACTIVE_CLIENTS.get(sid) yields for an unknown sid (None).
NoSession == [enrollment |-> <<>>, context |-> NoContext]

Session(enrollment, context) == [enrollment |-> enrollment, context |-> context]

\* Student JWTs by what jwt.decode makes of them: no token at all, a token
\* that fails verification, a verified token whose payload has no
\* enrollment_number, and a verified token carrying one.
EmptyToken == [kind |-> "empty", enrollment |-> <<>>]
BadToken == [kind |-> "bad", enrollment |-> <<>>]
NoPayloadToken == [kind |-> "nopayload", enrollment |-> <<>>]
GoodToken(e) == [kind |-> "good", enrollment |-> e]

Tokens == {EmptyToken, BadToken, NoPayloadToken} \cup {GoodToken(e) : e \in Enrollments}

\* The auth argument of connect: None, an empty dict, or a dict with a token.
NoAuth == [tag |-> "none", token |-> EmptyToken]
EmptyAuth == [tag |-> "empty", token |-> EmptyToken]
AuthWith(t) == [tag |-> "dict", token |-> t]

Auths == {NoAuth, EmptyAuth, AuthWith(GoodToken(<<"A">>)), AuthWith(BadToken)}

\* Peer enrollments named in event payloads; "b" never connects.
Peers == {Missing, Str(<<>>), Str(<<"b">>), Str(<<"A">>)}

\* Event payloads (the `data' argument).  null = TRUE is a payload of None.
Data(null, peer, signal_type, payload, typing, message, share) ==
  [null |-> null, peer_enrollment |-> peer, signal_type |-> signal_type,
   payload |-> payload, typing |-> typing, message |-> message,
   share_metadata |-> share]

NullData == Data(TRUE, Missing, Missing, Missing, "missing", Missing, Missing)

SignalData ==
  {NullData} \cup
  { Data(FALSE, p, t, Str(<<"s", "d", "p">>), "missing", Missing, Missing) :
      p \in Peers, t \in {Missing, Str(<<"o">>)} }

TypingData ==
  {NullData} \cup
  { Data(FALSE, p, Missing, Missing, t, Missing, Missing) :
      p \in Peers, t \in {"missing", "true"} }

Messages == {Missing, NoneV, Str(<<" ">>), Str(<<" ", "h", "i", " ">>)}

MessageData ==
  {NullData} \cup
  { Data(FALSE, p, Missing, Missing, "missing", m, Missing) :
      p \in Peers, m \in Messages }

NoInput == NullData

(***************************************************************************)
(* Room keys                                                               *)
(***************************************************************************)

\* f"student:{admin_id}:{enrollment_number}".lower()
personal_room(admin_id, enrollment_number) ==
  Lower(<<"student", ":">> \o IntStr(admin_id) \o <<":">> \o enrollment_number)

\* Variant: the default applied before the trim, (division or "all").strip().
DivisionDefaultBeforeStrip(context) ==
  Strip(IF Truthy(context.division) THEN context.division.s ELSE <<"a", "l", "l">>)

\* (context.get("division") or "").strip() or "all"
Division(context) ==
  LET raw == IF Truthy(context.division) THEN context.division.s ELSE <<>>
      stripped == Strip(raw)
  IN IF stripped # <<>> THEN stripped ELSE <<"a", "l", "l">>

\* f"class:{admin_id}:{std}:{division}".lower()
class_room(context) ==
  Lower(<<"class", ":">> \o IntStr(context.admin_id) \o <<":">> \o context.std
        \o <<":">> \o Division(context))

\* The room every connection is in under its own id (room=sid).
SidRoom(sid) == <<"sid">> \o IntStr(sid)

(***************************************************************************)
(* Handler log entries                                                     *)
(***************************************************************************)

NoSkip == 0

Call(name, arg, res) == [kind |-> "call", name |-> name, arg |-> arg, res |-> res]

Emit(event, payload, room, skip_sid) ==
  [kind |-> "emit", name |-> event, payload |-> payload, room |-> room,
   skip_sid |-> skip_sid]

EnterRoom(sid, room) == [kind |-> "enter_room", name |-> "enter_room", sid |-> sid, room |-> room]

Emits(lg) == SelectSeq(lg, LAMBDA e : e.kind = "emit")

Calls(lg) == SelectSeq(lg, LAMBDA e : e.kind = "call")

CallsTo(lg, name) == SelectSeq(lg, LAMBDA e : e.kind = "call" /\ e.name = name)

EmitsOf(lg, event) == SelectSeq(lg, LAMBDA e : e.kind = "emit" /\ e.name = event)

\* await sio.emit("presence:update", {enrollment, status}, room=_class_room(context))
broadcast_presence(context, enrollment, status) ==
  Emit("presence:update", [enrollment |-> enrollment, status |-> status],
       class_room(context), NoSkip)

(***************************************************************************)
(* External collaborators (student_portal_service): the gateway sees only  *)
(* their outcome, which the roster and the message store decide.           *)
(***************************************************************************)

Raised == [ok |-> FALSE, context |-> NoContext]

Returned(context) == [ok |-> TRUE, context |-> context]

\* get_roster_context(enrollment): the roster context, or an exception for
\* an enrollment the roster does not know.
RosterOutcomes(enrollment) == {Raised} \cup {Returned(c) : c \in Contexts}

\* Same tenant, class and division.
SameClass(c1, c2) ==
  c1.admin_id = c2.admin_id /\ c1.std = c2.std /\ c1.division = c2.division

\* ensure_same_classmate(current_context, peer_enrollment): the peer's
\* context when the peer is a classmate, HTTPException otherwise.
ClassmateOutcomes(current_context, peer_enrollment) ==
  {Raised} \cup {Returned(c) : c \in {x \in Contexts : SameClass(current_context, x)}}

\* SendChatMessageRequest(peer_enrollment=..., message=..., share_metadata=...)
SendChatMessageRequest(peer_enrollment, message, share_metadata) ==
  [peer_enrollment |-> peer_enrollment, message |-> message,
   share_metadata |-> share_metadata]

NoRecord == [id |-> "none", payload |-> SendChatMessageRequest(NoneV, <<>>, NoneV),
             sender |-> NoContext, peer |-> NoContext]

\* send_chat_message(payload, current_context, peer_context): the stored
\* record (with its id), or the storage error.
PersistenceOutcomes(payload, current_context, peer_context) ==
  { [ok |-> FALSE, record |-> NoRecord],
    [ok |-> TRUE,
     record |-> [id |-> "id", payload |-> payload, sender |-> current_context,
                 peer |-> peer_context]] }

(***************************************************************************)
(* Handshake helpers                                                       *)
(***************************************************************************)

\* Variant: the auth payload consulted first, the query string as fallback.
HandshakeTokenAuthFirst(query, auth) ==
  IF auth.tag = "dict" /\ auth.token.kind # "empty" THEN auth.token ELSE query

\* token = params.get("token", [""])[0]; if not token and auth: token = auth.get("token", "")
HandshakeToken(query, auth) ==
  IF query.kind = "empty" /\ auth.tag = "dict" THEN auth.token ELSE query

\* Variant: the payload check of lines 27-29 left out, so that a verified
\* token without enrollment_number decodes to str(None).
decode_student_token_unchecked(token) ==
  IF token.kind \in {"good", "nopayload"}
    THEN [ok |-> TRUE,
          enrollment |-> IF token.enrollment # <<>> THEN token.enrollment
                         ELSE <<"N", "o", "n", "e">>]
    ELSE [ok |-> FALSE, enrollment |-> <<>>]

\* decode_student_token: the enrollment number, or ValueError.
decode_student_token(token) ==
  IF token.kind = "good" /\ token.enrollment # <<>>
    THEN [ok |-> TRUE, enrollment |-> token.enrollment]
    ELSE [ok |-> FALSE, enrollment |-> <<>>]

(***************************************************************************)
(* Registry helpers                                                        *)
(***************************************************************************)

\* _ACTIVE_CLIENTS.get(sid)
ActiveClientsGet(clients, sid) ==
  IF sid \in DOMAIN clients THEN clients[sid] ELSE NoSession

\* Variant: the unknown-sid guard left out.
NotSessionNever(session) == FALSE

\* `if not session'
NotSession(session) == session = NoSession

\* _ACTIVE_CLIENTS[sid] = session_payload
RegisterClient(clients, sid, session) ==
  [s \in DOMAIN clients \cup {sid} |-> IF s = sid THEN session ELSE clients[s]]

\* Variant: the record is read with get instead of pop and stays registered.
PopClientKeep(clients, sid) == clients

\* _ACTIVE_CLIENTS.pop(sid, None)
PopClient(clients, sid) == [s \in DOMAIN clients \ {sid} |-> clients[s]]

\* Variant: the sid set is replaced instead of extended.
AddConnectionOverwrite(conns, enrollment, sid) ==
  [e \in DOMAIN conns \cup {enrollment} |-> IF e = enrollment THEN {sid} ELSE conns[e]]

\* _STUDENT_CONNECTIONS.setdefault(enrollment, set()).add(sid)
AddConnection(conns, enrollment, sid) ==
  [e \in DOMAIN conns \cup {enrollment} |->
     IF e = enrollment
       THEN (IF e \in DOMAIN conns THEN conns[e] ELSE {}) \cup {sid}
       ELSE conns[e]]

\* sid_set.discard(sid)
Discard(sid_set, sid) == sid_set \ {sid}

\* Variant: the emptiness test left out.
WentOfflineAlways(sid_set) == TRUE

\* `if not sid_set'
WentOffline(sid_set) == sid_set = {}

\* Variant: the enrollment key is kept with its empty set.
RemoveConnectionKeepKey(conns, enrollment, sid) ==
  IF enrollment \notin DOMAIN conns
    THEN conns
    ELSE [e \in DOMAIN conns |->
            IF e = enrollment THEN Discard(conns[e], sid) ELSE conns[e]]

\* disconnect, lines 122-126: the presence map after the sid has left.
RemoveConnection(conns, enrollment, sid) ==
  IF enrollment \notin DOMAIN conns
    THEN conns
    ELSE IF WentOffline(Discard(conns[enrollment], sid))
      THEN [e \in DOMAIN conns \ {enrollment} |-> conns[e]]
      ELSE [e \in DOMAIN conns |->
              IF e = enrollment THEN Discard(conns[e], sid) ELSE conns[e]]

\* Variant: the emptiness test made on the set as it was read, before the
\* sid is discarded from it.
DisconnectEmitsStale(conns, session, sid) ==
  IF session.enrollment \in DOMAIN conns /\ WentOffline(conns[session.enrollment])
    THEN <<broadcast_presence(session.context, session.enrollment, "offline")>>
    ELSE <<>>

\* disconnect, lines 122-127: the presence event of a disconnect.
DisconnectEmits(conns, session, sid) ==
  IF session.enrollment \in DOMAIN conns
     /\ WentOffline(Discard(conns[session.enrollment], sid))
    THEN <<broadcast_presence(session.context, session.enrollment, "offline")>>
    ELSE <<>>

(***************************************************************************)
(* Event helpers                                                           *)
(***************************************************************************)

\* (data or {}).get(key)
DataGet(data, field) == IF data.null THEN NoneV ELSE Get(field)

\* `if not peer_enrollment or not signal_type'
SignalDropped(peer_enrollment, signal_type) ==
  ~Truthy(peer_enrollment) \/ ~Truthy(signal_type)

\* `if not peer_enrollment'
TypingDropped(peer_enrollment) == ~Truthy(peer_enrollment)

\* `if not peer_enrollment or not message_text'
MessageDropped(peer_enrollment, message_text) ==
  ~Truthy(peer_enrollment) \/ message_text = <<>>

\* Variant: the rejection is caught but the handler goes on.
ClassmateRejectedNever(outcome) == FALSE

\* `except HTTPException: return'
ClassmateRejected(outcome) == ~outcome.ok

\* Variant: the signal is emitted without skip_sid.
SignalEmitNoSkip(session, sid, peer_enrollment, signal_type, payload, peer_context) ==
  Emit("signal",
       [sender_enrollment |-> session.enrollment, signal_type |-> signal_type,
        payload |-> payload],
       personal_room(peer_context.admin_id, peer_enrollment.s), NoSkip)

\* sio.emit("signal", {...}, room=_personal_room(peer_context["admin_id"], peer_enrollment), skip_sid=sid)
SignalEmit(session, sid, peer_enrollment, signal_type, payload, peer_context) ==
  Emit("signal",
       [sender_enrollment |-> session.enrollment, signal_type |-> signal_type,
        payload |-> payload],
       personal_room(peer_context.admin_id, peer_enrollment.s), sid)

\* Variant: the typing event is emitted without skip_sid.
TypingEmitNoSkip(session, sid, peer_enrollment, is_typing) ==
  Emit("typing",
       [sender_enrollment |-> session.enrollment, typing |-> is_typing],
       personal_room(session.context.admin_id, peer_enrollment.s), NoSkip)

\* sio.emit("typing", {...}, room=_personal_room(context["admin_id"], peer_enrollment), skip_sid=sid)
TypingEmit(session, sid, peer_enrollment, is_typing) ==
  Emit("typing",
       [sender_enrollment |-> session.enrollment, typing |-> is_typing],
       personal_room(session.context.admin_id, peer_enrollment.s), sid)

\* Variant: only the receiver's room is addressed.
MessageEmitsReceiverOnly(session, peer_enrollment, record) ==
  << Emit("message:new",
          [message |-> record,
           participants |-> <<session.enrollment, peer_enrollment.s>>],
          personal_room(session.context.admin_id, peer_enrollment.s), NoSkip) >>

\* broadcast_payload and the two emits of handle_send_message
MessageEmits(session, peer_enrollment, record) ==
  LET broadcast_payload ==
        [message |-> record,
         participants |-> <<session.enrollment, peer_enrollment.s>>]
      sender_room == personal_room(session.context.admin_id, session.enrollment)
      receiver_room == personal_room(session.context.admin_id, peer_enrollment.s)
  IN << Emit("message:new", broadcast_payload, sender_room, NoSkip),
        Emit("message:new", broadcast_payload, receiver_room, NoSkip) >>

\* Variant: the emits are made before the store is written.
EmitThenPersist(call, stored, emits) == emits \o <<call>>

\* The store is written first; the emits follow only when it returned.
PersistThenEmit(call, stored, emits) == IF stored THEN <<call>> \o emits ELSE <<call>>

\* Variant: the filter of the comprehension inverted (`if not sids').
OnlineSnapshotInverted(conns) == {e \in DOMAIN conns : conns[e] = {}}

\* online = [other for other, sids in _STUDENT_CONNECTIONS.items() if sids]
OnlineSnapshot(conns) == {e \in DOMAIN conns : conns[e] # {}}

\* Variant: the re-announcement gated on the enrollment having a single
\* connection, as a first-connection test would.
PresenceRequestEmitsGated(conns, session, sid) ==
  << Emit("presence:snapshot", [online |-> OnlineSnapshot(conns)], SidRoom(sid), NoSkip) >>
  \o (IF session.enrollment \in DOMAIN conns
         /\ Cardinality(conns[session.enrollment]) = 1
        THEN <<broadcast_presence(session.context, session.enrollment, "online")>>
        ELSE <<>>)

\* handle_presence_request, lines 261-264: the snapshot reply to the
\* requester, then the requester's own "online".
PresenceRequestEmits(conns, session, sid) ==
  << Emit("presence:snapshot", [online |-> OnlineSnapshot(conns)], SidRoom(sid), NoSkip),
     broadcast_presence(session.context, session.enrollment, "online") >>

(***************************************************************************)
(* State machine                                                           *)
(***************************************************************************)

NoClients == [s \in {} |-> NoSession]

NoConnections == [e \in {} |-> {}]

Registries == [clients |-> ACTIVE_CLIENTS, conns |-> STUDENT_CONNECTIONS, rooms |-> rooms]

\* Number of threads that may be inside the reset-token store at once.
NumCallers == 2

Callers == 1..NumCallers

NoCaller == 0

\* The latest instant of the clock followed.
MaxClock == 2

ResetTokens == {"t"}

NoEntry == [present |-> FALSE, email |-> <<>>, expires_at |-> 0]

Entry(email, expires_at) == [present |-> TRUE, email |-> email, expires_at |-> expires_at]

\* A thread that is not inside the store.
IdleCaller ==
  [op |-> "none", pc |-> "idle", token |-> "t", email |-> <<>>,
   normalized_email |-> <<>>, expires_at |-> 0, entry |-> NoEntry]

\* The store at import: no token, the lock free.
ResetInit ==
  /\ reset_tokens = [t \in {} |-> NoEntry]
  /\ lock = NoCaller
  /\ clock = 0
  /\ callers = [c \in Callers |-> IdleCaller]
  /\ granted = [t \in ResetTokens |-> 0]

\* No presence:update sent yet; `tracked' says whether the specification
\* keeps the record at all.
NoWire(tracked) ==
  [tracked |-> tracked, status |-> [e \in Enrollments |-> "none"], online_in |-> {}]

Init ==
  /\ ACTIVE_CLIENTS = NoClients
  /\ STUDENT_CONNECTIONS = NoConnections
  /\ rooms = [s \in Sids |-> {}]
  /\ last = [op |-> "init", sid |-> 0, query |-> EmptyToken, auth |-> NoAuth, data |-> NoInput]
  /\ pre = [clients |-> NoClients, conns |-> NoConnections, rooms |-> [s \in Sids |-> {}]]
  /\ log = <<>>
  /\ result = "return"
  /\ tasks = {}
  /\ wire = NoWire(FALSE)
  /\ ResetInit

\* The observation of one handler run.
Observe(op, sid, query, auth, data, lg, res) ==
  /\ last' = [op |-> op, sid |-> sid, query |-> query, auth |-> auth, data |-> data]
  /\ pre' = Registries
  /\ log' = lg
  /\ result' = res
  /\ UNCHANGED <<tasks, wire>>
  /\ UNCHANGED resetVars

\* Variant: an event handler that refreshes the presence map from the
\* registry, keeping one sid per enrollment.
UnchangedButPresence ==
  /\ UNCHANGED <<ACTIVE_CLIENTS, rooms>>
  /\ STUDENT_CONNECTIONS' =
       [e \in DOMAIN STUDENT_CONNECTIONS |->
          {s \in STUDENT_CONNECTIONS[e] : \A t \in STUDENT_CONNECTIONS[e] : s <= t}]

Unchanged == UNCHANGED <<ACTIVE_CLIENTS, STUDENT_CONNECTIONS, rooms>>

\* connect(sid, environ, auth): the handler, whatever sid it is given.
handshake(sid, query, auth) ==
  /\ TRUE
  /\ LET token == HandshakeToken(query, auth)
         decoded == decode_student_token(token)
         call1 == Call("decode_student_token", token, decoded)
     IN IF ~decoded.ok
          THEN /\ Unchanged
               /\ Observe("connect", sid, query, auth, NoInput, <<call1>>, "ConnectionRefusedError")
          ELSE \E roster \in RosterOutcomes(decoded.enrollment) :
                 LET enrollment == decoded.enrollment
                     call2 == Call("get_roster_context", enrollment, roster)
                     context == roster.context
                     session_payload == Session(enrollment, context)
                 IN IF ~roster.ok
                      THEN /\ Unchanged
                           /\ Observe("connect", sid, query, auth, NoInput,
                                      <<call1, call2>>, "ConnectionRefusedError")
                      ELSE /\ ACTIVE_CLIENTS' = RegisterClient(ACTIVE_CLIENTS, sid, session_payload)
                           /\ STUDENT_CONNECTIONS' = AddConnection(STUDENT_CONNECTIONS, enrollment, sid)
                           /\ rooms' = [rooms EXCEPT ![sid] =
                                          @ \cup {personal_room(context.admin_id, enrollment),
                                                  class_room(context)}]
                           /\ Observe("connect", sid, query, auth, NoInput,
                                      <<call1, call2,
                                        EnterRoom(sid, personal_room(context.admin_id, enrollment)),
                                        EnterRoom(sid, class_room(context)),
                                        broadcast_presence(context, enrollment, "online")>>,
                                      "return")

\* connect for a connection id the transport has just assigned.
connect(sid, query, auth) ==
  /\ sid \notin DOMAIN ACTIVE_CLIENTS
  /\ handshake(sid, query, auth)

\* The registries and rooms are as connects of fresh ids and disconnects
\* leave them: no duplicate connect has left a trace.
Undisturbed ==
  /\ \A e \in DOMAIN STUDENT_CONNECTIONS :
       STUDENT_CONNECTIONS[e] =
         {s \in DOMAIN ACTIVE_CLIENTS : ACTIVE_CLIENTS[s].enrollment = e}
  /\ \A s \in DOMAIN ACTIVE_CLIENTS :
       /\ ACTIVE_CLIENTS[s].enrollment \in DOMAIN STUDENT_CONNECTIONS
       /\ rooms[s] = {personal_room(ACTIVE_CLIENTS[s].context.admin_id,
                                    ACTIVE_CLIENTS[s].enrollment),
                      class_room(ACTIVE_CLIENTS[s].context)}

\* connect delivered for a connection id that is still registered; the
\* model follows one such delivery at a time.
reconnect(sid, query, auth) ==
  /\ sid \in DOMAIN ACTIVE_CLIENTS
  /\ Undisturbed
  /\ handshake(sid, query, auth)

\* disconnect(sid); the server drops the connection from its rooms.
disconnect(sid) ==
  LET session == ActiveClientsGet(ACTIVE_CLIENTS, sid)
  IN IF NotSession(session)
       THEN /\ UNCHANGED <<ACTIVE_CLIENTS, STUDENT_CONNECTIONS>>
            /\ rooms' = [rooms EXCEPT ![sid] = {}]
            /\ Observe("disconnect", sid, EmptyToken, NoAuth, NoInput, <<>>, "return")
       ELSE /\ ACTIVE_CLIENTS' = PopClient(ACTIVE_CLIENTS, sid)
            /\ STUDENT_CONNECTIONS' = RemoveConnection(STUDENT_CONNECTIONS, session.enrollment, sid)
            /\ rooms' = [rooms EXCEPT ![sid] = {}]
            /\ Observe("disconnect", sid, EmptyToken, NoAuth, NoInput,
                       DisconnectEmits(STUDENT_CONNECTIONS, session, sid), "return")

\* handle_signal(sid, data)
handle_signal(sid, data) ==
  LET session == ActiveClientsGet(ACTIVE_CLIENTS, sid)
      peer_enrollment == DataGet(data, data.peer_enrollment)
      signal_type == DataGet(data, data.signal_type)
      payload == Get(data.payload)
  IN /\ Unchanged
     /\ IF NotSession(session)
          THEN Observe("signal", sid, EmptyToken, NoAuth, data, <<>>, "return")
          ELSE IF data.null
            THEN Observe("signal", sid, EmptyToken, NoAuth, data, <<>>, "AttributeError")
            ELSE IF SignalDropped(peer_enrollment, signal_type)
              THEN Observe("signal", sid, EmptyToken, NoAuth, data, <<>>, "return")
              ELSE \E outcome \in ClassmateOutcomes(session.context, peer_enrollment.s) :
                     LET call == Call("ensure_same_classmate",
                                      <<session.context, peer_enrollment.s>>, outcome)
                     IN IF ClassmateRejected(outcome)
                          THEN Observe("signal", sid, EmptyToken, NoAuth, data, <<call>>, "return")
                          ELSE Observe("signal", sid, EmptyToken, NoAuth, data,
                                       <<call, SignalEmit(session, sid, peer_enrollment,
                                                          signal_type, payload, outcome.context)>>,
                                       "return")

\* handle_typing(sid, data)
handle_typing(sid, data) ==
  LET session == ActiveClientsGet(ACTIVE_CLIENTS, sid)
      peer_enrollment == DataGet(data, data.peer_enrollment)
      is_typing == ~data.null /\ data.typing = "true"
  IN /\ Unchanged
     /\ IF NotSession(session) \/ TypingDropped(peer_enrollment)
          THEN Observe("typing", sid, EmptyToken, NoAuth, data, <<>>, "return")
          ELSE Observe("typing", sid, EmptyToken, NoAuth, data,
                       <<TypingEmit(session, sid, peer_enrollment, is_typing)>>, "return")

\* handle_send_message(sid, data)
handle_send_message(sid, data) ==
  LET session == ActiveClientsGet(ACTIVE_CLIENTS, sid)
      peer_enrollment == DataGet(data, data.peer_enrollment)
      message == IF data.null THEN Str(<<>>) ELSE GetOrEmpty(data.message)
      share_metadata == DataGet(data, data.share_metadata)
  IN /\ Unchanged
     /\ IF NotSession(session)
          THEN Observe("send_message", sid, EmptyToken, NoAuth, data, <<>>, "return")
          ELSE IF message.tag = "none"
            THEN Observe("send_message", sid, EmptyToken, NoAuth, data, <<>>, "AttributeError")
            ELSE IF MessageDropped(peer_enrollment, Strip(message.s))
              THEN Observe("send_message", sid, EmptyToken, NoAuth, data, <<>>, "return")
              ELSE \E outcome \in ClassmateOutcomes(session.context, peer_enrollment.s) :
                     LET call1 == Call("ensure_same_classmate",
                                       <<session.context, peer_enrollment.s>>, outcome)
                         payload == SendChatMessageRequest(peer_enrollment.s, Strip(message.s),
                                                           share_metadata)
                     IN IF ClassmateRejected(outcome)
                          THEN Observe("send_message", sid, EmptyToken, NoAuth, data,
                                       <<call1>>, "return")
                          ELSE \E stored \in PersistenceOutcomes(payload, session.context,
                                                                 outcome.context) :
                                 Observe("send_message", sid, EmptyToken, NoAuth, data,
                                         <<call1>> \o
                                         PersistThenEmit(
                                           Call("send_chat_message",
                                                <<payload, session.context, outcome.context>>,
                                                stored),
                                           stored.ok,
                                           MessageEmits(session, peer_enrollment, stored.record)),
                                         IF stored.ok THEN "return" ELSE "StorageError")

\* handle_presence_request(sid)
handle_presence_request(sid) ==
  LET session == ActiveClientsGet(ACTIVE_CLIENTS, sid)
  IN /\ Unchanged
     /\ IF NotSession(session)
          THEN Observe("presence:request", sid, EmptyToken, NoAuth, NoInput, <<>>, "return")
          ELSE Observe("presence:request", sid, EmptyToken, NoAuth, NoInput,
                       PresenceRequestEmits(STUDENT_CONNECTIONS, session, sid), "return")

Next ==
  \/ \E sid \in Sids, query \in Tokens, auth \in Auths : connect(sid, query, auth)
  \/ \E sid \in Sids : disconnect(sid)
  \/ \E sid \in Sids, data \in SignalData : handle_signal(sid, data)
  \/ \E sid \in Sids, data \in TypingData : handle_typing(sid, data)
  \/ \E sid \in Sids, data \in MessageData : handle_send_message(sid, data)
  \/ \E sid \in Sids : handle_presence_request(sid)

Spec == Init /\ [][Next]_vars

\* The gateway under a transport that may deliver connect twice for one id.
NextDup ==
  \/ Next
  \/ \E sid \in Sids, query \in Tokens, auth \in Auths : reconnect(sid, query, auth)

SpecDup == Init /\ [][NextDup]_vars

(***************************************************************************)
(* Room key derivation on its own: the two pure functions applied to      *)
(* inputs drawn from bounded sets.                                         *)
(***************************************************************************)

\* Longest division or enrollment text tried.
MaxTextLen == 2

RoomChars == {"a", "A", " "}

RoomTexts == UNION {[1..k -> RoomChars] : k \in 0..MaxTextLen}

RoomContexts ==
  { Ctx(admin_id, std, division) :
      admin_id \in {1, 2},
      std \in {<<"5">>, <<"5", "a">>, <<"5", "A">>},
      division \in {NoneV} \cup {Str(t) : t \in RoomTexts} }

RoomEnrollments == RoomTexts \ {<<>>}

\* The observation of one key derivation.
ObserveRoom(op, context, enrollment, room) ==
  /\ Unchanged
  /\ last' = [op |-> op, sid |-> 0, query |-> EmptyToken, auth |-> NoAuth,
              data |-> NoInput, context |-> context, enrollment |-> enrollment]
  /\ pre' = Registries
  /\ log' = <<[kind |-> "room", name |-> op, room |-> room]>>
  /\ result' = "return"
  /\ UNCHANGED <<tasks, wire>>
  /\ UNCHANGED resetVars

\* _class_room(context)
derive_class_room(context) ==
  /\ context \in RoomContexts
  /\ ObserveRoom("class_room", context, <<>>, class_room(context))

\* _personal_room(admin_id, enrollment_number)
derive_personal_room(admin_id, enrollment_number) ==
  /\ enrollment_number \in RoomEnrollments
  /\ ObserveRoom("personal_room", Ctx(admin_id, <<>>, NoneV), enrollment_number,
                 personal_room(admin_id, enrollment_number))

NextRooms ==
  \/ \E context \in RoomContexts : derive_class_room(context)
  \/ \E admin_id \in {1, 2}, enrollment \in RoomEnrollments :
       derive_personal_room(admin_id, enrollment)

SpecRooms == Init /\ [][NextRooms]_vars

(***************************************************************************)
(* The handlers as coroutines on the event loop.  A handler runs from one  *)
(* await to the next without interruption; at an await the loop may run    *)
(* any other handler.  A suspended handler is a task: its event, its sid,  *)
(* the awaited call it is suspended at, and its local session.  The effect *)
(* of the awaited call takes place when the task is resumed.               *)
(***************************************************************************)

\* Number of handlers that may be suspended at the same time.
MaxTasks == 2

\* The handshakes followed at this grain: a refused one and one student's.
AsyncTokens == {BadToken, GoodToken(<<"a">>)}

\* The roster's answers followed at this grain: those of one tenant.
AsyncRosterOutcomes(enrollment) ==
  {r \in RosterOutcomes(enrollment) : ~r.ok \/ r.context.admin_id = 1}

Task(op, sid, pc, session) == [op |-> op, sid |-> sid, pc |-> pc, session |-> session]

TasksOf(sid) == {t \in tasks : t.sid = sid}

\* Variant: the "online" broadcast awaited before the rooms are entered.
ConnectNextEmitFirst(pc) ==
  CASE pc = "save_session" -> "emit_online"
    [] pc = "emit_online" -> "enter_personal"
    [] pc = "enter_personal" -> "enter_class"
    [] OTHER -> "done"

\* connect, lines 93-108: the awaited call that follows each awaited call.
ConnectNext(pc) ==
  CASE pc = "save_session" -> "enter_personal"
    [] pc = "enter_personal" -> "enter_class"
    [] pc = "enter_class" -> "emit_online"
    [] OTHER -> "done"

\* handle_presence_request, lines 263-264
PresenceNext(pc) == IF pc = "emit_snapshot" THEN "emit_online" ELSE "done"

\* The task set after task t has moved on to its next await, or returned.
Advance(t, pc) ==
  IF pc = "done" THEN tasks \ {t} ELSE (tasks \ {t}) \cup {[t EXCEPT !.pc = pc]}

\* The record of the presence:update events sent, after one more.
PresenceSent(w, emit) ==
  LET e == emit.payload.enrollment
  IN IF ~w.tracked
       THEN w
       ELSE [tracked |-> TRUE,
             status |-> [w.status EXCEPT ![e] = emit.payload.status],
             online_in |-> IF emit.payload.status = "online"
                             THEN w.online_in \cup {<<e, emit.room>>}
                             ELSE w.online_in \ {<<e, emit.room>>}]

Unobserved == UNCHANGED <<last, pre, log, result>> /\ UNCHANGED resetVars

\* connect, lines 74-93: up to `await sio.save_session'.
connect_begin(sid, query, auth) ==
  /\ Cardinality(tasks) < MaxTasks
  /\ sid \notin DOMAIN ACTIVE_CLIENTS
  /\ TasksOf(sid) = {}
  /\ Unobserved
  /\ Unchanged
  /\ UNCHANGED wire
  /\ LET decoded == decode_student_token(HandshakeToken(query, auth))
     IN IF ~decoded.ok
          THEN UNCHANGED tasks
          ELSE \E roster \in AsyncRosterOutcomes(decoded.enrollment) :
                 IF ~roster.ok
                   THEN UNCHANGED tasks
                   ELSE tasks' = tasks \cup
                          {Task("connect", sid, "save_session",
                                Session(decoded.enrollment, roster.context))}

\* connect, lines 94-105: up to the first `await sio.enter_room'.
connect_register(t) ==
  /\ t.op = "connect"
  /\ t.pc = "save_session"
  /\ ACTIVE_CLIENTS' = RegisterClient(ACTIVE_CLIENTS, t.sid, t.session)
  /\ STUDENT_CONNECTIONS' = AddConnection(STUDENT_CONNECTIONS, t.session.enrollment, t.sid)
  /\ tasks' = Advance(t, ConnectNext(t.pc))
  /\ UNCHANGED <<rooms, wire>>
  /\ Unobserved

\* connect, lines 105-106: a room is entered.
connect_enter_room(t) ==
  /\ t.op = "connect"
  /\ t.pc \in {"enter_personal", "enter_class"}
  /\ rooms' = [rooms EXCEPT ![t.sid] = @ \cup
                 {IF t.pc = "enter_personal"
                    THEN personal_room(t.session.context.admin_id, t.session.enrollment)
                    ELSE class_room(t.session.context)}]
  /\ tasks' = Advance(t, ConnectNext(t.pc))
  /\ UNCHANGED <<ACTIVE_CLIENTS, STUDENT_CONNECTIONS, wire>>
  /\ Unobserved

\* connect, line 108: the "online" broadcast.
connect_emit_online(t) ==
  /\ t.op = "connect"
  /\ t.pc = "emit_online"
  /\ wire' = PresenceSent(wire, broadcast_presence(t.session.context,
                                                   t.session.enrollment, "online"))
  /\ tasks' = Advance(t, ConnectNext(t.pc))
  /\ Unchanged
  /\ Unobserved

\* disconnect, lines 115-127: up to `await _broadcast_presence', or to the
\* return; the server drops the connection from its rooms when the handler
\* has returned.
disconnect_begin(sid) ==
  /\ Cardinality(tasks) < MaxTasks
  /\ \A t \in TasksOf(sid) : t.op # "disconnect"
  /\ Unobserved
  /\ UNCHANGED wire
  /\ LET session == ActiveClientsGet(ACTIVE_CLIENTS, sid)
     IN IF NotSession(session)
          THEN /\ UNCHANGED <<ACTIVE_CLIENTS, STUDENT_CONNECTIONS, tasks>>
               /\ rooms' = [rooms EXCEPT ![sid] = {}]
          ELSE /\ ACTIVE_CLIENTS' = PopClient(ACTIVE_CLIENTS, sid)
               /\ STUDENT_CONNECTIONS' =
                    RemoveConnection(STUDENT_CONNECTIONS, session.enrollment, sid)
               /\ IF DisconnectEmits(STUDENT_CONNECTIONS, session, sid) = <<>>
                    THEN /\ rooms' = [rooms EXCEPT ![sid] = {}]
                         /\ UNCHANGED tasks
                    ELSE /\ UNCHANGED rooms
                         /\ tasks' = tasks \cup
                              {Task("disconnect", sid, "emit_offline", session)}

\* disconnect, line 127: the "offline" broadcast.
disconnect_emit_offline(t) ==
  /\ t.op = "disconnect"
  /\ t.pc = "emit_offline"
  /\ wire' = PresenceSent(wire, broadcast_presence(t.session.context,
                                                   t.session.enrollment, "offline"))
  /\ rooms' = [rooms EXCEPT ![t.sid] = {}]
  /\ tasks' = Advance(t, "done")
  /\ UNCHANGED <<ACTIVE_CLIENTS, STUDENT_CONNECTIONS>>
  /\ Unobserved

\* handle_presence_request, lines 253-263: up to the snapshot emit.  The
\* transport delivers a connection's events after its handshake.
presence_begin(sid) ==
  /\ Cardinality(tasks) < MaxTasks
  /\ \A t \in TasksOf(sid) : t.op # "connect"
  /\ Unobserved
  /\ Unchanged
  /\ UNCHANGED wire
  /\ LET session == ActiveClientsGet(ACTIVE_CLIENTS, sid)
     IN IF NotSession(session)
          THEN UNCHANGED tasks
          ELSE tasks' = tasks \cup {Task("presence:request", sid, "emit_snapshot", session)}

\* handle_presence_request, line 263: the snapshot reply.
presence_emit_snapshot(t) ==
  /\ t.op = "presence:request"
  /\ t.pc = "emit_snapshot"
  /\ tasks' = Advance(t, PresenceNext(t.pc))
  /\ Unchanged
  /\ UNCHANGED wire
  /\ Unobserved

\* handle_presence_request, line 264: the requester's own "online".
presence_emit_online(t) ==
  /\ t.op = "presence:request"
  /\ t.pc = "emit_online"
  /\ wire' = PresenceSent(wire, broadcast_presence(t.session.context,
                                                   t.session.enrollment, "online"))
  /\ tasks' = Advance(t, PresenceNext(t.pc))
  /\ Unchanged
  /\ Unobserved

NextAsync ==
  \/ \E sid \in Sids, query \in AsyncTokens : connect_begin(sid, query, NoAuth)
  \/ \E t \in tasks : connect_register(t)
  \/ \E t \in tasks : connect_enter_room(t)
  \/ \E t \in tasks : connect_emit_online(t)
  \/ \E sid \in Sids : disconnect_begin(sid)
  \/ \E t \in tasks : disconnect_emit_offline(t)
  \/ \E sid \in Sids : presence_begin(sid)
  \/ \E t \in tasks : presence_emit_snapshot(t)
  \/ \E t \in tasks : presence_emit_online(t)

SpecAsync == Init /\ [][NextAsync]_vars

\* The same coroutines, with the presence:update events on the wire recorded.
InitWire ==
  /\ ACTIVE_CLIENTS = NoClients
  /\ STUDENT_CONNECTIONS = NoConnections
  /\ rooms = [s \in Sids |-> {}]
  /\ last = [op |-> "init", sid |-> 0, query |-> EmptyToken, auth |-> NoAuth, data |-> NoInput]
  /\ pre = [clients |-> NoClients, conns |-> NoConnections, rooms |-> [s \in Sids |-> {}]]
  /\ log = <<>>
  /\ result = "return"
  /\ tasks = {}
  /\ wire = NoWire(TRUE)
  /\ ResetInit

SpecWire == InitWire /\ [][NextAsync]_vars

(***************************************************************************)
(* The event loop with a resolver that may never return.  The resolvers    *)
(* are called, not awaited (lines 83-84): the handler that is inside one   *)
(* has not given the loop back, so the loop resumes nothing until the call *)
(* returns.                                                                *)
(***************************************************************************)

ResolverCalls == {"decode_student_token", "get_roster_context"}

\* A handler is inside a resolver call.
Blocked == \E t \in tasks : t.pc \in ResolverCalls

\* connect, lines 74-84, with a resolver call that does not return.
connect_hang(sid, query, call) ==
  /\ Cardinality(tasks) < MaxTasks
  /\ sid \notin DOMAIN ACTIVE_CLIENTS
  /\ TasksOf(sid) = {}
  /\ call = "get_roster_context" => decode_student_token(HandshakeToken(query, NoAuth)).ok
  /\ tasks' = tasks \cup {Task("connect", sid, call, NoSession)}
  /\ Unchanged
  /\ UNCHANGED wire
  /\ Unobserved

\* The loop resumes the suspended task t.
Resume(t) ==
  \/ connect_register(t)
  \/ connect_enter_room(t)
  \/ connect_emit_online(t)
  \/ disconnect_emit_offline(t)
  \/ presence_emit_snapshot(t)
  \/ presence_emit_online(t)

\* The tasks a handler can be suspended as.
AwaitPoints ==
  {<<"connect", "save_session">>, <<"connect", "enter_personal">>,
   <<"connect", "enter_class">>, <<"connect", "emit_online">>,
   <<"disconnect", "emit_offline">>,
   <<"presence:request", "emit_snapshot">>, <<"presence:request", "emit_online">>}

SuspendedTasks ==
  { Task(p[1], sid, p[2], Session(token.enrollment, roster.context)) :
      p \in AwaitPoints, sid \in Sids,
      token \in {t \in AsyncTokens : t.kind = "good"},
      roster \in {r \in AsyncRosterOutcomes(<<"a">>) : r.ok} }

NextLoop ==
  \/ ~Blocked /\ NextAsync
  \/ ~Blocked /\ \E sid \in Sids, query \in AsyncTokens, call \in ResolverCalls :
                   connect_hang(sid, query, call)

\* The loop runs every task that is ready to be resumed.
SpecLoop ==
  /\ Init
  /\ [][NextLoop]_vars
  /\ \A t \in SuspendedTasks : WF_vars(~Blocked /\ t \in tasks /\ Resume(t))

\* The handlers run one at a time, each to its end, with the wire recorded.
NextSerial ==
  \/ tasks = {} /\ NextAsync
  \/ \E t \in tasks : Resume(t)

SpecSerial == InitWire /\ [][NextSerial]_vars

(***************************************************************************)
(* The password-reset token store (backend/app/utils/                      *)
(* password_reset_store.py), called from request threads.  A call is       *)
(* followed from its entry to the lock, through the locked block, to its   *)
(* return; the clock may advance between any two steps.                    *)
(***************************************************************************)

ResetEmails == {<<" ", "A">>, <<"b">>}

Expiries == 1..MaxClock

\* email.lower().strip()
normalize_email(email) == Strip(Lower(email))

\* _purge_expired_locked, with `now' the clock when it is called
purge_expired_locked(tokens, now) ==
  [t \in {x \in DOMAIN tokens : ~(tokens[x].expires_at <= now)} |-> tokens[t]]

\* Variant: the block entered without waiting for the lock.
LockFreeAlways(l) == TRUE

\* `with _lock': the lock can be taken.
LockFree(l) == l = NoCaller

\* _reset_tokens.get(token)
TokensGet(tokens, token) == IF token \in DOMAIN tokens THEN tokens[token] ELSE NoEntry

\* _reset_tokens.pop(token, None)
TokensPop(tokens, token) == [t \in DOMAIN tokens \ {token} |-> tokens[t]]

\* _reset_tokens[token] = (normalized_email, expires_at)
TokensPut(tokens, token, entry) ==
  [t \in DOMAIN tokens \cup {token} |-> IF t = token THEN entry ELSE tokens[t]]

\* `if stored_email != normalized_email or datetime.utcnow() > expires_at'
Rejected(entry, normalized_email, now) ==
  entry.email # normalized_email \/ now > entry.expires_at

GatewayUnchanged ==
  UNCHANGED <<ACTIVE_CLIENTS, STUDENT_CONNECTIONS, rooms, last, pre, log, result, tasks, wire>>

\* store_reset_token, line 22: up to `with _lock'.
store_call(c, email, token, expires_at) ==
  /\ callers[c].pc = "idle"
  /\ callers' = [callers EXCEPT ![c] =
                   [op |-> "store", pc |-> "lock", token |-> token, email |-> email,
                    normalized_email |-> normalize_email(email),
                    expires_at |-> expires_at, entry |-> NoEntry]]
  /\ UNCHANGED <<reset_tokens, lock, clock, granted>>
  /\ GatewayUnchanged

\* store_reset_token, lines 23-24: the lock is taken, expired tokens go.
store_enter(c) ==
  /\ callers[c].op = "store"
  /\ callers[c].pc = "lock"
  /\ LockFree(lock)
  /\ lock' = c
  /\ reset_tokens' = purge_expired_locked(reset_tokens, clock)
  /\ callers' = [callers EXCEPT ![c].pc = "assign"]
  /\ UNCHANGED <<clock, granted>>
  /\ GatewayUnchanged

\* store_reset_token, line 25: the token is stored, the lock released.
store_assign(c) ==
  /\ callers[c].op = "store"
  /\ callers[c].pc = "assign"
  /\ reset_tokens' = TokensPut(reset_tokens, callers[c].token,
                               Entry(callers[c].normalized_email, callers[c].expires_at))
  /\ granted' = [granted EXCEPT ![callers[c].token] = 0]
  /\ lock' = NoCaller
  /\ callers' = [callers EXCEPT ![c] = IdleCaller]
  /\ UNCHANGED clock
  /\ GatewayUnchanged

\* consume_reset_token, line 29: up to `with _lock'.
consume_call(c, email, token) ==
  /\ callers[c].pc = "idle"
  /\ callers' = [callers EXCEPT ![c] =
                   [op |-> "consume", pc |-> "lock", token |-> token, email |-> email,
                    normalized_email |-> normalize_email(email),
                    expires_at |-> 0, entry |-> NoEntry]]
  /\ UNCHANGED <<reset_tokens, lock, clock, granted>>
  /\ GatewayUnchanged

\* consume_reset_token, lines 30-34: the lock is taken, expired tokens go,
\* the entry is read; without an entry the call returns False.
consume_enter(c) ==
  /\ callers[c].op = "consume"
  /\ callers[c].pc = "lock"
  /\ LockFree(lock)
  /\ reset_tokens' = purge_expired_locked(reset_tokens, clock)
  /\ LET entry == TokensGet(purge_expired_locked(reset_tokens, clock), callers[c].token)
     IN IF ~entry.present
          THEN /\ lock' = NoCaller
               /\ callers' = [callers EXCEPT ![c] = IdleCaller]
          ELSE /\ lock' = c
               /\ callers' = [callers EXCEPT ![c].pc = "check", ![c].entry = entry]
  /\ UNCHANGED <<clock, granted>>
  /\ GatewayUnchanged

\* consume_reset_token, lines 36-42: the entry is compared and popped, the
\* lock released, and the call returns.
consume_check(c) ==
  /\ callers[c].op = "consume"
  /\ callers[c].pc = "check"
  /\ reset_tokens' = TokensPop(reset_tokens, callers[c].token)
  /\ granted' = IF Rejected(callers[c].entry, callers[c].normalized_email, clock)
                  THEN granted
                  ELSE [granted EXCEPT ![callers[c].token] = @ + 1]
  /\ lock' = NoCaller
  /\ callers' = [callers EXCEPT ![c] = IdleCaller]
  /\ UNCHANGED clock
  /\ GatewayUnchanged

\* Time passes.
tick ==
  /\ clock < MaxClock
  /\ clock' = clock + 1
  /\ UNCHANGED <<reset_tokens, lock, callers, granted>>
  /\ GatewayUnchanged

NextReset ==
  \/ \E c \in Callers, email \in ResetEmails, token \in ResetTokens, expires_at \in Expiries :
       store_call(c, email, token, expires_at)
  \/ \E c \in Callers : store_enter(c)
  \/ \E c \in Callers : store_assign(c)
  \/ \E c \in Callers, email \in ResetEmails, token \in ResetTokens :
       consume_call(c, email, token)
  \/ \E c \in Callers : consume_enter(c)
  \/ \E c \in Callers : consume_check(c)
  \/ tick

SpecReset == Init /\ [][NextReset]_vars

\* The credential the last connect handed to the credential resolver.
HandshakeCredential == log[1].arg

(***************************************************************************)
(* Properties                                                              *)
(***************************************************************************)

EventOps == {"signal", "typing", "send_message", "presence:request"}

\* The connection that ran the last handler was registered when it ran.
WasJoined == last.sid \in DOMAIN pre.clients

\* The session the last handler found for its connection.
PreSession == pre.clients[last.sid]

\* Connections registered for an enrollment in a registry.
ConnectionsOf(clients, enrollment) ==
  {s \in DOMAIN clients : clients[s].enrollment = enrollment}

\* A required field is lacking: absent, null or empty.
Lacks(v) == v.tag \in {"missing", "none"} \/ v.s = <<>>

\* The field of the last event's payload (absent when the payload is null).
Field(v) == IF last.data.null THEN Missing ELSE v

\* A text made of whitespace only (or empty).
Blank(s) == \A i \in 1..Len(s) : s[i] = " "

\* t is s without its leading and trailing whitespace.
IsTrimOf(t, s) ==
  /\ t # <<>>
  /\ t[1] # " "
  /\ t[Len(t)] # " "
  /\ \E i \in 1..Len(s) :
       /\ i + Len(t) - 1 <= Len(s)
       /\ SubSeq(s, i, i + Len(t) - 1) = t
       /\ \A k \in 1..Len(s) : (k < i \/ k > i + Len(t) - 1) => s[k] = " "

\* The last handler was a successful handshake.
Connected == last.op = "connect" /\ result = "return"

\* C1: a successful connect broadcasts presence "online" for its enrollment to
\* the class room exactly when the enrollment had no connection before it; a
\* second concurrent connection emits no "online".
C1_OnlineOnlyOnFirstConnection ==
  Connected =>
    LET session == ACTIVE_CLIENTS[last.sid]
    IN EmitsOf(log, "presence:update") =
         IF ConnectionsOf(pre.clients, session.enrollment) = {}
           THEN <<Emit("presence:update",
                       [enrollment |-> session.enrollment, status |-> "online"],
                       class_room(session.context), NoSkip)>>
           ELSE <<>>

\* Two connections of one enrollment are open and the second one announced
\* "online" again.
C1_Witness ==
  /\ Connected
  /\ Cardinality(ConnectionsOf(ACTIVE_CLIENTS, ACTIVE_CLIENTS[last.sid].enrollment)) = 2
  /\ Len(EmitsOf(log, "presence:update")) = 1

\* C2: the disconnect of a registered connection broadcasts presence
\* "offline" for its enrollment to the class room if and only if no other
\* registered connection of that enrollment remains; otherwise it emits nothing.
C2_OfflineIffLastConnection ==
  (last.op = "disconnect" /\ WasJoined) =>
    Emits(log) =
      IF ConnectionsOf(pre.clients, PreSession.enrollment) = {last.sid}
        THEN <<Emit("presence:update",
                    [enrollment |-> PreSession.enrollment, status |-> "offline"],
                    class_room(PreSession.context), NoSkip)>>
        ELSE <<>>

\* Multi-device: a connection closed while another one of the same enrollment
\* stays open, and no presence event was emitted.
C2_Witness ==
  /\ last.op = "disconnect"
  /\ WasJoined
  /\ ConnectionsOf(ACTIVE_CLIENTS, PreSession.enrollment) # {}
  /\ log = <<>>

\* C3: an enrollment is in the online snapshot if and only if the registry
\* holds a connection of that enrollment.
C3_SnapshotMatchesRegistry ==
  \A e \in Enrollments \cup DOMAIN STUDENT_CONNECTIONS :
    (e \in OnlineSnapshot(STUDENT_CONNECTIONS)) <=> (ConnectionsOf(ACTIVE_CLIENTS, e) # {})

\* One enrollment on two connections went down to one, the other is offline.
C3_Witness ==
  /\ last.op = "disconnect"
  /\ WasJoined
  /\ \E e \in Enrollments : Cardinality(ConnectionsOf(pre.clients, e)) = 2
  /\ \E e \in Enrollments : e \in OnlineSnapshot(STUDENT_CONNECTIONS)
  /\ \E e \in Enrollments : e \notin OnlineSnapshot(STUDENT_CONNECTIONS)

\* The handshake of the last connect failed: the credential it used was
\* missing or invalid, or the roster-context resolver raised.
HandshakeFailed ==
  /\ last.op = "connect"
  /\ \/ HandshakeCredential.kind # "good"
     \/ \E i \in DOMAIN log :
          log[i].kind = "call" /\ log[i].name = "get_roster_context" /\ ~log[i].res.ok

\* C4: a failed handshake refuses the connection, leaves the registry, the
\* presence map and the room memberships as they were, and emits nothing.
C4_FailedHandshakeChangesNothing ==
  HandshakeFailed =>
    /\ result = "ConnectionRefusedError"
    /\ Registries = pre
    /\ \A i \in DOMAIN log : log[i].kind = "call"

\* A handshake refused by the roster resolver while another student is online.
C4_Witness ==
  /\ HandshakeFailed
  /\ HandshakeCredential.kind = "good"
  /\ DOMAIN ACTIVE_CLIENTS # {}

\* The last event was a send_message from a joined connection with a peer
\* enrollment and a message that is not blank.
WellFormedMessage ==
  /\ last.op = "send_message"
  /\ WasJoined
  /\ ~Lacks(Field(last.data.peer_enrollment))
  /\ last.data.message.tag = "str"
  /\ ~Blank(last.data.message.s)

\* The classmate checker was called by the last handler and rejected the peer.
ClassmateCheckRejected ==
  \E i \in DOMAIN log :
    log[i].kind = "call" /\ log[i].name = "ensure_same_classmate" /\ ~log[i].res.ok

\* The classmate checker was called by the last handler and accepted the peer.
ClassmateCheckAccepted ==
  \E i \in DOMAIN log :
    log[i].kind = "call" /\ log[i].name = "ensure_same_classmate" /\ log[i].res.ok

\* C5: a well-formed send_message whose peer the classmate checker rejects
\* never reaches the persistence collaborator and emits no message:new.
C5_RejectedMessageNotStored ==
  (WellFormedMessage /\ ClassmateCheckRejected) =>
    /\ CallsTo(log, "send_chat_message") = <<>>
    /\ Emits(log) = <<>>
    /\ result = "return"

\* A well-formed message to a peer that was rejected.
C5_Witness == WellFormedMessage /\ ClassmateCheckRejected

\* The persistence call of the last handler (when it made exactly one).
PersistenceCall == CallsTo(log, "send_chat_message")[1]

\* C6: an accepted send_message calls persistence exactly once, with the
\* trimmed text; when the store returns, exactly two message:new events
\* follow the call, the first to the sender's personal room and the second to
\* the receiver's, both with the stored record and participants
\* [sender, peer] and with no connection excluded.
C6_AcceptedMessageStoredThenEmittedTwice ==
  (WellFormedMessage /\ ClassmateCheckAccepted) =>
    /\ Len(CallsTo(log, "send_chat_message")) = 1
    /\ IsTrimOf(PersistenceCall.arg[1].message, last.data.message.s)
    /\ PersistenceCall.arg[1].peer_enrollment = last.data.peer_enrollment.s
    /\ PersistenceCall.res.ok =>
         LET payload == [message |-> PersistenceCall.res.record,
                         participants |-> <<PreSession.enrollment,
                                            last.data.peer_enrollment.s>>]
         IN /\ Len(log) = 4
            /\ log[2] = PersistenceCall
            /\ log[3] = Emit("message:new", payload,
                             personal_room(PreSession.context.admin_id,
                                           PreSession.enrollment), NoSkip)
            /\ log[4] = Emit("message:new", payload,
                             personal_room(PreSession.context.admin_id,
                                           last.data.peer_enrollment.s), NoSkip)

\* A message with surrounding whitespace was stored and emitted.
C6_Witness ==
  /\ WellFormedMessage
  /\ ClassmateCheckAccepted
  /\ PersistenceCall.res.ok
  /\ Len(EmitsOf(log, "message:new")) = 2
  /\ last.data.message.s # PersistenceCall.arg[1].message

\* The persistence collaborator raised in the last handler.
PersistenceFailed ==
  /\ last.op = "send_message"
  /\ \E i \in DOMAIN log :
       log[i].kind = "call" /\ log[i].name = "send_chat_message" /\ ~log[i].res.ok

\* C7: when persistence fails the fault ends that handler only: no
\* message:new is emitted, the registry, presence map and rooms are as they
\* were, and every handler can still run for every connection.
C7_PersistenceFaultConfined ==
  PersistenceFailed =>
    /\ result = "StorageError"
    /\ Emits(log) = <<>>
    /\ Registries = pre
    /\ \A sid \in Sids :
         /\ ENABLED handle_presence_request(sid)
         /\ ENABLED disconnect(sid)
         /\ \A d \in TypingData : ENABLED handle_typing(sid, d)
         /\ \A d \in MessageData : ENABLED handle_send_message(sid, d)
         /\ \A d \in SignalData : ENABLED handle_signal(sid, d)

\* The store failed for a joined sender while a second connection is open.
C7_Witness ==
  /\ PersistenceFailed
  /\ WasJoined
  /\ Cardinality(DOMAIN ACTIVE_CLIENTS) >= 2

\* C8: an event from a connection id without a registry record makes no
\* emit and no collaborator call, changes nothing and returns silently.
C8_UnknownSidDropped ==
  (last.op \in EventOps /\ ~WasJoined) =>
    /\ log = <<>>
    /\ Registries = pre
    /\ result = "return"

\* A well-formed typing event from an unregistered connection id, with
\* another connection joined.
C8_Witness ==
  /\ last.op = "typing"
  /\ ~WasJoined
  /\ ~Lacks(Field(last.data.peer_enrollment))
  /\ DOMAIN ACTIVE_CLIENTS # {}

\* The last event lacks a required field.
Malformed ==
  \/ /\ last.op = "signal"
     /\ \/ Lacks(Field(last.data.peer_enrollment))
        \/ Lacks(Field(last.data.signal_type))
  \/ /\ last.op = "typing"
     /\ Lacks(Field(last.data.peer_enrollment))
  \/ /\ last.op = "send_message"
     /\ \/ Lacks(Field(last.data.peer_enrollment))
        \/ Lacks(Field(last.data.message))
        \/ Blank(last.data.message.s)

\* C9: an event lacking a required field mutates neither registry, calls no
\* collaborator and emits nothing.
C9_MalformedEventHasNoEffect ==
  Malformed =>
    /\ Registries = pre
    /\ log = <<>>

\* A joined connection sent a signal with an empty peer enrollment.
C9_Witness ==
  /\ Malformed
  /\ WasJoined
  /\ last.op = "signal"
  /\ last.data.peer_enrollment = Str(<<>>)

\* The last event was a signal from a joined connection with a peer
\* enrollment and a signal type.
WellFormedSignal ==
  /\ last.op = "signal"
  /\ WasJoined
  /\ ~Lacks(Field(last.data.peer_enrollment))
  /\ ~Lacks(Field(last.data.signal_type))

\* C10: a well-formed signal emits if and only if the classmate checker
\* accepts the peer: then exactly one signal event goes to the peer's
\* personal room with the sender's enrollment, the signal type and the
\* payload, excluding the sending connection; on rejection nothing is
\* emitted and the handler returns without an error.
C10_SignalRelayedIffClassmate ==
  WellFormedSignal =>
    /\ result = "return"
    /\ Len(CallsTo(log, "ensure_same_classmate")) = 1
    /\ Emits(log) =
         IF ClassmateCheckAccepted
           THEN <<Emit("signal",
                       [sender_enrollment |-> PreSession.enrollment,
                        signal_type |-> last.data.signal_type,
                        payload |-> Get(last.data.payload)],
                       personal_room(CallsTo(log, "ensure_same_classmate")[1].res.context.admin_id,
                                     last.data.peer_enrollment.s),
                       last.sid)>>
           ELSE <<>>

\* A signal relayed to a classmate.
C10_Witness ==
  /\ WellFormedSignal
  /\ ClassmateCheckAccepted
  /\ Len(Emits(log)) = 1

\* The last event was a typing event from a joined connection with a peer
\* enrollment.
WellFormedTyping ==
  /\ last.op = "typing"
  /\ WasJoined
  /\ ~Lacks(Field(last.data.peer_enrollment))

\* C11: a typing event with a peer enrollment from a joined connection makes
\* exactly one typing emit, to the personal room of the sender's own tenant
\* id and the peer enrollment, excluding the sending connection, and never
\* calls the classmate checker.
C11_TypingRelayedWithoutClassmateCheck ==
  WellFormedTyping =>
    /\ result = "return"
    /\ log = <<Emit("typing",
                    [sender_enrollment |-> PreSession.enrollment,
                     typing |-> (last.data.typing = "true")],
                    Lower(<<"student", ":">> \o IntStr(PreSession.context.admin_id)
                          \o <<":">> \o last.data.peer_enrollment.s),
                    last.sid)>>

\* A typing indicator relayed to "b", an enrollment that never connected and
\* that no roster context was resolved for.
C11_Witness ==
  /\ WellFormedTyping
  /\ last.data.peer_enrollment = Str(<<"b">>)
  /\ last.data.typing = "true"
  /\ Len(EmitsOf(log, "typing")) = 1

\* The last event was a presence:request from a joined connection.
JoinedPresenceRequest == last.op = "presence:request" /\ WasJoined

\* The enrollments with at least one registered connection.
LiveEnrollments(clients) == {clients[s].enrollment : s \in DOMAIN clients}

\* The enrollments with at least one registered connection of a tenant.
LiveEnrollmentsOfTenant(clients, admin_id) ==
  {clients[s].enrollment : s \in {x \in DOMAIN clients : clients[x].context.admin_id = admin_id}}

C13_SnapshotScopedToTenant ==
  JoinedPresenceRequest =>
    /\ Len(EmitsOf(log, "presence:snapshot")) = 1
    /\ EmitsOf(log, "presence:snapshot")[1].payload.online =
         LiveEnrollmentsOfTenant(pre.clients, PreSession.context.admin_id)

\* A requester of one tenant while a student of another tenant is connected.
C13_Witness ==
  /\ JoinedPresenceRequest
  /\ \E s \in DOMAIN pre.clients :
       pre.clients[s].context.admin_id # PreSession.context.admin_id

\* C14: a presence:request from a joined connection emits, after the
\* snapshot reply, exactly one presence:update "online" for the requester's
\* enrollment to the requester's class room, whatever the number of
\* connections of that enrollment.
C14_PresenceRequestReannouncesOnline ==
  JoinedPresenceRequest =>
    /\ Len(log) = 2
    /\ log[1].kind = "emit"
    /\ log[1].name = "presence:snapshot"
    /\ log[2] = Emit("presence:update",
                     [enrollment |-> PreSession.enrollment, status |-> "online"],
                     class_room(PreSession.context), NoSkip)

\* A presence:request of an enrollment that has two connections open.
C14_Witness ==
  /\ JoinedPresenceRequest
  /\ Cardinality(ConnectionsOf(pre.clients, PreSession.enrollment)) = 2
  /\ Len(EmitsOf(log, "presence:update")) = 1

\* The last handler was a connect for an id that already had a record, and
\* its handshake resolved an enrollment and a roster context.
DuplicateRegistration ==
  /\ last.op = "connect"
  /\ WasJoined
  /\ ~HandshakeFailed

\* C15: registering a connection id that is already in the registry fails
\* with a duplicate-connection error and leaves the existing record and the
\* presence map unchanged.
C15_DuplicateRegistrationFails ==
  DuplicateRegistration =>
    /\ result = "DuplicateConnection"
    /\ ACTIVE_CLIENTS = pre.clients
    /\ STUDENT_CONNECTIONS = pre.conns

\* A registered id was registered again under another enrollment.
C15_Witness ==
  /\ DuplicateRegistration
  /\ ACTIVE_CLIENTS[last.sid].enrollment # PreSession.enrollment

\* C16: a disconnect for a connection id without a registry record changes
\* neither the registry nor the presence map and emits nothing; and every
\* disconnect leaves its id without a record, so that disconnecting the same
\* connection a second time has no further effect.
C16_DisconnectIdempotent ==
  last.op = "disconnect" =>
    /\ last.sid \notin DOMAIN ACTIVE_CLIENTS
    /\ ~WasJoined =>
         /\ ACTIVE_CLIENTS = pre.clients
         /\ STUDENT_CONNECTIONS = pre.conns
         /\ log = <<>>
         /\ result = "return"

\* A disconnect for an id without a record while another student is online.
C16_Witness ==
  /\ last.op = "disconnect"
  /\ ~WasJoined
  /\ DOMAIN STUDENT_CONNECTIONS # {}

\* C17: the presence map holds no enrollment key with an empty set of
\* connection ids.
C17_NoEmptyPresenceEntries ==
  \A e \in DOMAIN STUDENT_CONNECTIONS : STUDENT_CONNECTIONS[e] # {}

\* The last connection of an enrollment left and its key is gone, while the
\* other enrollment is still online.
C17_Witness ==
  /\ last.op = "disconnect"
  /\ WasJoined
  /\ PreSession.enrollment \in DOMAIN pre.conns
  /\ PreSession.enrollment \notin DOMAIN STUDENT_CONNECTIONS
  /\ DOMAIN STUDENT_CONNECTIONS # {}

\* C18: signal, typing, send_message and presence:request leave the
\* connection registry and the presence map unchanged, whatever the payload
\* and the outcome.
C18_EventsLeaveRegistriesAlone ==
  last.op \in EventOps =>
    /\ ACTIVE_CLIENTS = pre.clients
    /\ STUDENT_CONNECTIONS = pre.conns

\* A send_message whose store failed, sent by an enrollment with two
\* connections.
C18_Witness ==
  /\ last.op = "send_message"
  /\ result = "StorageError"
  /\ WasJoined
  /\ Cardinality(ConnectionsOf(ACTIVE_CLIENTS, PreSession.enrollment)) = 2

\* Two characters equal up to letter case.
SameCharUpToCase(c, d) ==
  \/ c = d
  \/ {c, d} = {"a", "A"}
  \/ {c, d} = {"b", "B"}

\* Two texts equal up to letter case.
SameUpToCase(s, t) ==
  /\ Len(s) = Len(t)
  /\ \A i \in 1..Len(s) : SameCharUpToCase(s[i], t[i])

\* core is s without the whitespace around it.
Padded(core, s) == IF Blank(s) THEN core = <<>> ELSE IsTrimOf(core, s)

\* Two divisions that differ only in letter case and surrounding whitespace.
SameDivision(d1, d2) ==
  /\ d1.tag = d2.tag
  /\ \E k1 \in RoomTexts, k2 \in RoomTexts :
       /\ Padded(k1, d1.s)
       /\ Padded(k2, d2.s)
       /\ SameUpToCase(k1, k2)

\* Two contexts that differ only in letter case and in whitespace around the
\* division.
SameContext(c1, c2) ==
  /\ c1.admin_id = c2.admin_id
  /\ SameUpToCase(c1.std, c2.std)
  /\ SameDivision(c1.division, c2.division)

\* C19: contexts that differ only in letter case or in whitespace around the
\* division have the same class-room key, and (tenant, enrollment) pairs
\* that differ only in letter case have the same personal-room key.
C19_RoomKeysCaseInsensitive ==
  /\ last.op = "class_room" =>
       \A c \in RoomContexts :
         SameContext(c, last.context) => class_room(c) = log[1].room
  /\ last.op = "personal_room" =>
       \A e \in RoomEnrollments :
         SameUpToCase(e, last.enrollment) =>
           personal_room(last.context.admin_id, e) = log[1].room

\* The key of a context whose division is upper-case with whitespace before
\* it.
C19_Witness ==
  /\ last.op = "class_room"
  /\ last.context.division = Str(<<" ", "A">>)
  /\ last.context.std = <<"5", "A">>
  /\ \E c \in RoomContexts :
       c # last.context /\ SameContext(c, last.context) /\ c.division = Str(<<"a">>)

\* The division of a context is absent, empty or whitespace only.
NoDivision(context) == context.division.tag = "none" \/ Blank(context.division.s)

\* C20: a division that is None, empty or whitespace only is replaced by
\* "all": the key ends in ":all" and equals the key of the same tenant and
\* class with division "all".
C20_DivisionDefaultsToAll ==
  (last.op = "class_room" /\ NoDivision(last.context)) =>
    LET key == log[1].room
        n == Len(key)
    IN /\ n > 4
       /\ SubSeq(key, n - 3, n) = <<":", "a", "l", "l">>
       /\ key = class_room([last.context EXCEPT !.division = Str(<<"a", "l", "l">>)])
       /\ \A c \in RoomContexts :
            ( /\ NoDivision(c)
              /\ c.admin_id = last.context.admin_id
              /\ c.std = last.context.std ) => class_room(c) = key

\* The key of a context whose division is whitespace only.
C20_Witness ==
  /\ last.op = "class_room"
  /\ last.context.division = Str(<<" ">>)
  /\ Len(log[1].room) > 4

\* C21: the credential handed to the credential resolver is the query-string
\* token whenever that token is non-empty, whatever the auth payload holds;
\* the auth payload token is used only when the query-string token is absent
\* or empty; when neither gives a non-empty token the handshake is refused.
C21_QueryTokenTakesPrecedence ==
  last.op = "connect" =>
    /\ last.query.kind # "empty" => HandshakeCredential = last.query
    /\ (last.query.kind = "empty" /\ last.auth.tag = "dict") =>
         HandshakeCredential = last.auth.token
    /\ HandshakeCredential # last.query =>
         (last.query.kind = "empty" /\ HandshakeCredential = last.auth.token)
    /\ (last.query.kind = "empty" /\ last.auth.token.kind = "empty") =>
         /\ result = "ConnectionRefusedError"
         /\ Registries = pre

\* A handshake given one student's token in the query string and another
\* student's token in the auth payload, which joins as the former.
C21_Witness ==
  /\ Connected
  /\ last.query = GoodToken(<<"a">>)
  /\ last.auth = AuthWith(GoodToken(<<"A">>))
  /\ ACTIVE_CLIENTS[last.sid].enrollment = <<"a">>

\* The connection of a suspended connect is registered with the session
\* that connect resolved: no disconnect has removed it since.
StillRegistered(t) ==
  /\ t.sid \in DOMAIN ACTIVE_CLIENTS
  /\ ACTIVE_CLIENTS[t.sid] = t.session

\* C22: a successful handshake registers the connection and adds it to the
\* presence map, then joins the personal room, then the class room, and only
\* then broadcasts "online": a connect about to enter a room is registered and
\* in the presence map, and a connect about to broadcast "online" is a member
\* of its personal room and of its class room.
C22_HandshakeStepsInOrder ==
  \A t \in tasks :
    t.op = "connect" =>
      LET personal == personal_room(t.session.context.admin_id, t.session.enrollment)
          class == class_room(t.session.context)
      IN /\ t.pc = "save_session" => t.sid \notin DOMAIN ACTIVE_CLIENTS
         /\ t.pc # "save_session" =>
              (StillRegistered(t) =>
                 /\ t.session.enrollment \in DOMAIN STUDENT_CONNECTIONS
                 /\ t.sid \in STUDENT_CONNECTIONS[t.session.enrollment]
                 /\ t.pc = "enter_class" => personal \in rooms[t.sid]
                 /\ t.pc = "emit_online" => {personal, class} \subseteq rooms[t.sid])

\* A connect about to broadcast "online" from inside both rooms, while
\* another handler is suspended.
C22_Witness ==
  \E t \in tasks :
    /\ t.op = "connect"
    /\ t.pc = "emit_online"
    /\ StillRegistered(t)
    /\ class_room(t.session.context) \in rooms[t.sid]
    /\ Cardinality(tasks) = 2

\* C23: the disconnect sequence (remove the sid from the set, test the set,
\* decide on "offline") is one uninterrupted step at every interleaving: the
\* step that unregisters a connection leaves every other enrollment's set as
\* it was, and decides "offline" exactly when the sid was the enrollment's
\* last connection, so that of two disconnects of an enrollment's last two
\* connections exactly one decides it, and never while the enrollment still
\* has a registered connection.
C23_DisconnectSequenceAtomic ==
  [][ \A sid \in Sids :
        (sid \in DOMAIN ACTIVE_CLIENTS /\ sid \notin DOMAIN ACTIVE_CLIENTS') =>
          LET e == ACTIVE_CLIENTS[sid].enrollment
              decided == \E t \in tasks' \ tasks :
                           /\ t.op = "disconnect"
                           /\ t.sid = sid
                           /\ t.pc = "emit_offline"
                           /\ t.session.enrollment = e
          IN /\ \A x \in DOMAIN STUDENT_CONNECTIONS \ {e} :
                  /\ x \in DOMAIN STUDENT_CONNECTIONS'
                  /\ STUDENT_CONNECTIONS'[x] = STUDENT_CONNECTIONS[x]
             /\ e \in DOMAIN STUDENT_CONNECTIONS
             /\ decided <=> (STUDENT_CONNECTIONS[e] = {sid})
             /\ decided <=> (e \notin DOMAIN STUDENT_CONNECTIONS')
             /\ decided <=> (ConnectionsOf(ACTIVE_CLIENTS', e) = {})
             /\ ~decided => STUDENT_CONNECTIONS'[e] = STUDENT_CONNECTIONS[e] \ {sid}
    ]_vars

\* An enrollment's last two connections have disconnected while a handler
\* of the first was suspended: one "offline" is pending, for the second.
C23_Witness ==
  \E t \in tasks, u \in tasks :
    /\ t.op = "disconnect"
    /\ t.pc = "emit_offline"
    /\ u.op = "presence:request"
    /\ u.sid # t.sid
    /\ u.session.enrollment = t.session.enrollment
    /\ DOMAIN ACTIVE_CLIENTS = {}
    /\ DOMAIN STUDENT_CONNECTIONS = {}

\* C24: when a resolver never returns for one connection's handshake, only
\* that connection's task is stalled: a handler of another connection that
\* is in flight is still eventually completed.
C24_HungResolverStallsOnlyItsTask ==
  \A u \in SuspendedTasks :
    (u \in tasks /\ \E h \in tasks : h.pc \in ResolverCalls /\ h.sid # u.sid)
      ~> (u \notin tasks)

\* A handshake inside a resolver call while another connection's disconnect
\* waits to broadcast "offline".
C24_Witness ==
  \E h \in tasks, u \in tasks :
    /\ h.pc = "get_roster_context"
    /\ u.sid # h.sid
    /\ u.op = "disconnect"
    /\ u.pc = "emit_offline"

\* The last event came from a joined connection with no payload at all, or
\* with null for a required field.
NullPayloadOrField ==
  /\ WasJoined
  /\ \/ /\ last.op \in {"signal", "typing", "send_message"}
        /\ last.data.null
     \/ /\ last.op \in {"signal", "typing", "send_message"}
        /\ ~last.data.null
        /\ last.data.peer_enrollment.tag = "none"
     \/ /\ last.op = "signal"
        /\ ~last.data.null
        /\ last.data.signal_type.tag = "none"
     \/ /\ last.op = "send_message"
        /\ ~last.data.null
        /\ last.data.message.tag = "none"

\* C25: a signal, typing or send_message event of a joined connection whose
\* payload is null, or whose required field is null, is dropped silently:
\* the handler returns without a fault, emits nothing and calls nothing.
C25_NullPayloadDroppedSilently ==
  NullPayloadOrField =>
    /\ result = "return"
    /\ log = <<>>
    /\ Registries = pre

\* A joined connection sent a signal with no payload; another one sent a
\* message whose text is null.
C25_Witness ==
  /\ NullPayloadOrField
  /\ \/ last.op = "signal" /\ last.data.null
     \/ last.op = "send_message" /\ ~last.data.null /\ last.data.message.tag = "none"
  /\ result = "AttributeError"

\* No handler is in flight.
Quiescent == tasks = {}

\* C26: once all in-flight handlers have completed, the presence:update sent
\* last for an enrollment says "online" exactly when the enrollment has a
\* registered connection.
C26_LastPresenceMatchesRegistry ==
  Quiescent =>
    \A e \in Enrollments :
      wire.status[e] # "none" =>
        (wire.status[e] = "online" <=> ConnectionsOf(ACTIVE_CLIENTS, e) # {})

\* All handlers have completed, no connection is registered, and the last
\* presence:update for the enrollment said "online".
C26_Witness ==
  /\ Quiescent
  /\ DOMAIN ACTIVE_CLIENTS = {}
  /\ DOMAIN STUDENT_CONNECTIONS = {}
  /\ wire.status[<<"a">>] = "online"
  /\ wire.online_in # {}

\* C27: when "online" for an enrollment was broadcast to a class room, then
\* after the enrollment's last connection has disconnected "offline" for it
\* has been broadcast to that same room, also when the enrollment's
\* connections resolved different roster contexts at their handshakes.
C27_OfflineReachesEveryOnlineRoom ==
  Quiescent =>
    \A p \in wire.online_in : ConnectionsOf(ACTIVE_CLIENTS, p[1]) # {}

\* With handlers run one at a time: the enrollment has no connection left,
\* its "offline" was broadcast, and a class room that heard "online" has
\* not heard it.
C27_Witness ==
  /\ Quiescent
  /\ DOMAIN ACTIVE_CLIENTS = {}
  /\ wire.status[<<"a">>] = "offline"
  /\ \E p \in wire.online_in : p[1] = <<"a">>

\* C28: whenever an enrollment is in the presence map, at least one of its
\* registered connections is a member of the enrollment's personal room.
C28_OnlineImpliesInPersonalRoom ==
  \A e \in DOMAIN STUDENT_CONNECTIONS :
    \E s \in STUDENT_CONNECTIONS[e] :
      /\ s \in DOMAIN ACTIVE_CLIENTS
      /\ personal_room(ACTIVE_CLIENTS[s].context.admin_id, e) \in rooms[s]

\* An enrollment is in the presence map while its only connection, whose
\* connect is suspended before the first enter_room, is in no room.
C28_Witness ==
  \E t \in tasks :
    /\ t.op = "connect"
    /\ t.pc = "enter_personal"
    /\ StillRegistered(t)
    /\ t.session.enrollment \in DOMAIN STUDENT_CONNECTIONS
    /\ STUDENT_CONNECTIONS[t.session.enrollment] = {t.sid}
    /\ rooms[t.sid] = {}

\* The last handler stored a message and went on to emit it.
MessageAccepted ==
  /\ WellFormedMessage
  /\ ClassmateCheckAccepted
  /\ PersistenceCall.res.ok

\* The personal rooms of the sender and of the receiver of the last message.
TargetRooms ==
  {personal_room(PreSession.context.admin_id, PreSession.enrollment),
   personal_room(PreSession.context.admin_id, last.data.peer_enrollment.s)}

\* The number of message:new events of the last handler delivered to sid.
Delivered(sid) ==
  Cardinality({i \in DOMAIN log :
                 /\ log[i].kind = "emit"
                 /\ log[i].name = "message:new"
                 /\ log[i].room \in rooms[sid]
                 /\ log[i].skip_sid # sid})

\* C29: for each accepted send_message, every connection that is a member of
\* the sender's or the receiver's personal room is delivered message:new
\* exactly once, also when the two rooms coincide.
C29_MessageDeliveredOnce ==
  MessageAccepted =>
    \A sid \in Sids :
      (rooms[sid] \cap TargetRooms # {}) => Delivered(sid) = 1

\* A student's message to their own enrollment written in the other letter
\* case: both emits address one room and the sender's connection gets both.
C29_Witness ==
  /\ MessageAccepted
  /\ PreSession.enrollment # last.data.peer_enrollment.s
  /\ Cardinality(TargetRooms) = 1
  /\ Delivered(last.sid) = 2

\* The supplied email, trimmed and lower-cased, is the stored email.
MatchesStored(email, stored_email) ==
  \E core \in {<<>>} \cup {SubSeq(email, i, j) : i \in 1..Len(email), j \in 1..Len(email)} :
    /\ Padded(core, email)
    /\ SameUpToCase(core, stored_email)

\* C30: a stored reset token is consumed successfully at most once, at every
\* interleaving of the calls; consume returns True only for a token that is
\* stored, whose stored email is the supplied email trimmed and lower-cased,
\* and that is not past its expiry; and every consume attempt, successful or
\* not, leaves the token removed, so that a later attempt returns False.
C30_ResetTokenConsumedAtMostOnce ==
  /\ [](\A t \in ResetTokens : granted[t] <= 1)
  /\ [][ \A c \in Callers :
           (callers[c].op = "consume" /\ callers[c].pc # "idle" /\ callers'[c].pc = "idle") =>
             LET tok == callers[c].token
                 stored == tok \in DOMAIN reset_tokens
                 returnedTrue == granted'[tok] = granted[tok] + 1
             IN /\ granted' # granted => returnedTrue
                /\ returnedTrue =>
                     /\ stored
                     /\ MatchesStored(callers[c].email, reset_tokens[tok].email)
                     /\ clock <= reset_tokens[tok].expires_at
                /\ ~stored => ~returnedTrue
                /\ tok \notin DOMAIN reset_tokens'
     ]_vars

\* The token was consumed once and is gone, while a second consume of it
\* waits for the lock.
C30_Witness ==
  /\ granted["t"] = 1
  /\ "t" \notin DOMAIN reset_tokens
  /\ \E c \in Callers :
       /\ callers[c].op = "consume"
       /\ callers[c].pc = "lock"
       /\ callers[c].email = <<" ", "A">>

====
